---- MODULE Spec2Model ----
(***************************************************************************)
(* Model of the three calculators of app.py: render_pv_ess_lcoe,           *)
(* render_gas_lcoe and render_lcos.  Each one reads its widgets, builds    *)
(* the year-0 row of the table ts, runs the per-year loop and computes     *)
(* the three levelized figures.                                            *)
(*                                                                         *)
(* Numbers.  The program computes in Python floats; the model computes in  *)
(* exact rationals <<n, d>> in lowest terms with d > 0, so that the        *)
(* algebra of the formulas is checked, not the rounding.  A Python         *)
(* ZeroDivisionError is the value ZDE; it propagates through every         *)
(* operation and the step that raises it ends the run in pc = "fault".     *)
(*                                                                         *)
(* Rows.  ts[k] is the Python list ts[k]; the Python index y is the        *)
(* TLA+ index y + 1.                                                       *)
(***************************************************************************)
EXTENDS Integers, Sequences, FiniteSets, TLC

VARIABLES mode, p, pc, y, ts, total_inv, annual_depr, sal_val_pre,
          cum_denom, cum_num_pre, cum_num_after,
          lcoe_pre, lcoe_after, lcoe_ppa

vars == <<mode, p, pc, y, ts, total_inv, annual_depr, sal_val_pre,
          cum_denom, cum_num_pre, cum_num_after,
          lcoe_pre, lcoe_after, lcoe_ppa>>

----------------------------------------------------------------------------
(* Exact arithmetic standing for Python's float arithmetic. *)

Abs(n) == IF n < 0 THEN -n ELSE n

RECURSIVE GCD(_, _)
GCD(a, b) == IF b = 0 THEN a ELSE GCD(b, a % b)

ZDE == <<0, 0>>

Raised(a) == a[2] = 0

Rat(n, d) ==
    IF d = 0 THEN ZDE
    ELSE LET s == IF d < 0 THEN -1 ELSE 1
             g == GCD(Abs(n), Abs(d))
         IN  <<(s * n) \div g, (s * d) \div g>>

I(n) == <<n, 1>>

Zero == I(0)

One == I(1)

Neg(a) == IF Raised(a) THEN ZDE ELSE <<-a[1], a[2]>>

Add(a, b) ==
    IF Raised(a) \/ Raised(b) THEN ZDE
    ELSE LET g == GCD(a[2], b[2])
         IN  Rat(a[1] * (b[2] \div g) + b[1] * (a[2] \div g), (a[2] \div g) * b[2])

Sub(a, b) == Add(a, Neg(b))

Mul(a, b) ==
    IF Raised(a) \/ Raised(b) THEN ZDE
    ELSE LET g1 == GCD(Abs(a[1]), b[2])
             g2 == GCD(Abs(b[1]), a[2])
         IN  Rat((a[1] \div g1) * (b[1] \div g2), (a[2] \div g2) * (b[2] \div g1))

Div(a, b) ==
    IF Raised(a) \/ Raised(b) \/ b[1] = 0 THEN ZDE
    ELSE Mul(a, IF b[1] > 0 THEN <<b[2], b[1]>> ELSE <<-b[2], -b[1]>>)

RECURSIVE Pow(_, _)
Pow(a, n) == IF n = 0 THEN One ELSE Mul(a, Pow(a, n - 1))

Gt0(a) == a[1] > 0

Lt0(a) == a[1] < 0

Geq0(a) == a[1] >= 0

Leq(a, b) == Geq0(Sub(b, a))

Pct(n) == Rat(n, 100)

----------------------------------------------------------------------------
(* Bounds of the model and the widget minima of the program. *)

MaxPeriod == 11

SmallPeriod == 2

MinRepYrPv == 10

MinRepCostPv == 5000

MinSalvagePctPv == 5

MinRepYrLcos == 8

MinRepCostLcos == 10000

Periods == (0 .. SmallPeriod) \cup {MaxPeriod}

WaccPcts == {-100, 0, 100}

TaxPcts == {0, 50, 100}

DeprYears == {-1, 0, 2, 16}

----------------------------------------------------------------------------
(* The table. *)

Cols == {"Year", "Generation", "Discount Factor", "Discounted Gen", "Cum Discounted Gen",
         "Capex", "Opex Pre-tax", "Fuel/Charge Pre-tax", "Replacement", "Salvage Pre-tax",
         "Net Cash Flow (Pre-tax)", "Depreciation", "Tax Shield", "Opex Tax Benefit",
         "Salvage After-tax", "Net Cost Flow (After-tax)", "PV of Cost (After-tax)",
         "Cum PV Cost (After-tax)", "PV of Cost (Pre-tax)", "Cum PV Cost (Pre-tax)"}

CapexCols == {"Capex", "Net Cash Flow (Pre-tax)", "Net Cost Flow (After-tax)",
              "PV of Cost (Pre-tax)", "Cum PV Cost (Pre-tax)",
              "PV of Cost (After-tax)", "Cum PV Cost (After-tax)"}

Row0NoCumCapex(inv) ==
    [k \in Cols |->
        IF k = "Year" THEN <<0>>
        ELSE IF k = "Discount Factor" THEN <<One>>
        ELSE IF k \in CapexCols \ {"Cum PV Cost (Pre-tax)", "Cum PV Cost (After-tax)"} THEN <<inv>>
        ELSE <<Zero>>]

\* for k in ts: ts[k].append(0), then the year-0 assignments
Row0(inv) ==
    [k \in Cols |->
        IF k = "Year" THEN <<0>>
        ELSE IF k = "Discount Factor" THEN <<One>>
        ELSE IF k \in CapexCols THEN <<inv>>
        ELSE <<Zero>>]

----------------------------------------------------------------------------
(* The per-year formulas the three calculators share. *)

DegNoFloor(yr, pv_deg) == Sub(One, Mul(I(yr - 1), pv_deg))

\* deg = 1 - (y-1) * pv_deg ; if deg < 0: deg = 0
DegFactor(yr, pv_deg) ==
    LET deg == Sub(One, Mul(I(yr - 1), pv_deg))
    IN  IF Lt0(deg) THEN Zero ELSE deg

\* df = 1 / ((1+wacc)**y)
DiscountFactor(wacc, yr) == Div(One, Pow(Add(One, wacc), yr))

RepFrom(yr, rep_yr, rep_cost) == IF yr >= rep_yr THEN rep_cost ELSE Zero

\* rep = rep_cost if y == rep_yr else 0
RepOf(yr, rep_yr, rep_cost) == IF yr = rep_yr THEN rep_cost ELSE Zero

SalPrePositive(yr, period, sal_val) == IF yr = period THEN sal_val ELSE Zero

\* sal_pre = -salvage_val_pre if y == period else 0
SalPreOf(yr, period, sal_val) == IF yr = period THEN Neg(sal_val) ELSE Zero

CurrDeprNoCutoff(yr, depr_years, depr) == depr

\* curr_depr = annual_depr if y <= depr_years else 0
CurrDepr(yr, depr_years, depr) == IF yr <= depr_years THEN depr ELSE Zero

\* sal_after = sal_pre * (1 - tax_rate)
SalAfterOf(sal_pre, tax_rate) == Mul(sal_pre, Sub(One, tax_rate))

NetAfterShieldAdded(cost_pre, opex_ben, rep, shield, sal_after) ==
    Add(Add(Add(Sub(cost_pre, opex_ben), rep), shield), sal_after)

\* net_after = (opex_pre + charge_pre - opex_ben) + rep - shield + sal_after
NetAfterOf(cost_pre, opex_ben, rep, shield, sal_after) ==
    Add(Sub(Add(Sub(cost_pre, opex_ben), rep), shield), sal_after)

DenomNonNeg(denom) == Geq0(denom)

\* (cum_num / cum_denom) * 10 if cum_denom > 0 else 0
DenomOK(denom) == Gt0(denom)

LcoeOf(num, denom) == IF DenomOK(denom) THEN Mul(Div(num, denom), I(10)) ELSE Zero

PpaTimes(after, tax_rate) ==
    IF Gt0(Sub(One, tax_rate)) THEN Mul(after, Sub(One, tax_rate)) ELSE Zero

\* lcoe_after / (1 - tax_rate) if (1-tax_rate) > 0 else 0
PpaOf(after, tax_rate) ==
    IF Gt0(Sub(One, tax_rate)) THEN Div(after, Sub(One, tax_rate)) ELSE Zero

----------------------------------------------------------------------------
(* The widgets: what each calculator can read. *)

PvInputs ==
    [pv_cap : {I(-1), I(0), I(2)}, pv_hours : {I(3)},
     ess_cap : {I(0), I(1)}, ess_cycles : {I(2)},
     pv_deg : {Pct(0), Pct(50)}, ess_eff : {Pct(50)},
     capex_pv : {I(8)}, capex_ess : {I(4)}, capex_grid : {I(4)},
     opex_r_pv : {Pct(25)}, opex_r_ess : {Pct(50)}, opex_r_grid : {Pct(25)},
     wacc : {Pct(w) : w \in WaccPcts}, period : Periods,
     tax_rate : {Pct(t) : t \in TaxPcts}, depr_years : DeprYears,
     rep_yr : {MinRepYrPv}, rep_cost : {I(MinRepCostPv)},
     salvage_rate : {Pct(MinSalvagePctPv * 5), Pct(100)}]

\* number_input(..., value=v) takes any number; number_input(label, m) passes
\* m as min_value (the second positional parameter) and starts at m
GasInputs ==
    [gas_cap : {I(-1), I(0), I(2)}, gas_capex : {I(16)},
     wacc : {Pct(w) : w \in WaccPcts},
     hours : {I(3)}, heat_rate : {I(1)}, price : {I(0), I(10)},
     fixed_opex : {I(2)},
     tax_rate : {Pct(t) : t \in TaxPcts}, depr_years : DeprYears,
     period : Periods, salvage_rate : {Pct(0), Pct(25), Pct(100)}]

LcosInputs ==
    [ess_cap : {I(-1), I(0), I(2)}, cycles : {I(2)}, rte : {Pct(50)},
     deg : {Pct(0), Pct(100)},
     capex : {I(16)}, opex_r : {Pct(25)}, charge_p : {I(10)},
     wacc : {Pct(w) : w \in WaccPcts},
     tax_rate : {Pct(t) : t \in TaxPcts}, depr_years : DeprYears,
     period : Periods,
     rep_yr : {MinRepYrLcos}, rep_cost : {I(MinRepCostLcos)},
     salvage_rate : {Pct(0), Pct(100)}]

----------------------------------------------------------------------------
(* render_pv_ess_lcoe *)

PvSetup ==
    /\ pc = "setup"
    /\ mode = "PV"
    /\ LET inv == Add(Add(p.capex_pv, p.capex_ess), p.capex_grid)
           depr == Div(inv, I(p.depr_years))
       IN  /\ total_inv' = inv
           /\ ts' = Row0(inv)
           /\ IF Raised(depr)
              THEN /\ pc' = "fault"
                   /\ UNCHANGED <<y, annual_depr, sal_val_pre, cum_denom, cum_num_pre, cum_num_after>>
              ELSE /\ pc' = "loop"
                   /\ y' = 1
                   /\ annual_depr' = depr
                   /\ cum_denom' = Zero
                   /\ cum_num_pre' = inv
                   /\ cum_num_after' = inv
                   /\ sal_val_pre' = Mul(inv, p.salvage_rate)
    /\ UNCHANGED <<mode, p, lcoe_pre, lcoe_after, lcoe_ppa>>

PvGen(yr) ==
    Add(Mul(Mul(p.pv_cap, p.pv_hours), DegFactor(yr, p.pv_deg)),
        Mul(Mul(p.ess_cap, p.ess_cycles), p.ess_eff))

PvOpex == Add(Add(Mul(p.capex_pv, p.opex_r_pv), Mul(p.capex_ess, p.opex_r_ess)),
              Mul(p.capex_grid, p.opex_r_grid))

PvYear ==
    /\ pc = "loop"
    /\ mode = "PV"
    /\ y <= p.period
    /\ LET gen == PvGen(y)
           df == DiscountFactor(p.wacc, y)
           g_npv == Mul(gen, df)
           opex_pre == PvOpex
           rep == RepOf(y, p.rep_yr, p.rep_cost)
           sal_pre == SalPreOf(y, p.period, sal_val_pre)
           net_pre == Add(Add(opex_pre, rep), sal_pre)
           c_npv_pre == Mul(net_pre, df)
           curr_depr == CurrDepr(y, p.depr_years, annual_depr)
           tax_shield == Mul(curr_depr, p.tax_rate)
           opex_ben == Mul(opex_pre, p.tax_rate)
           sal_after == SalAfterOf(sal_pre, p.tax_rate)
           net_after == NetAfterOf(opex_pre, opex_ben, rep, tax_shield, sal_after)
           c_npv_after == Mul(net_after, df)
       IN  IF Raised(df)
           THEN /\ pc' = "fault"
                /\ ts' = [ts EXCEPT !["Year"] = Append(@, y),
                                 !["Generation"] = Append(@, gen)]
                /\ UNCHANGED <<y, cum_denom, cum_num_pre, cum_num_after>>
           ELSE /\ pc' = "loop"
                /\ y' = y + 1
                /\ cum_denom' = Add(cum_denom, g_npv)
                /\ cum_num_pre' = Add(cum_num_pre, c_npv_pre)
                /\ cum_num_after' = Add(cum_num_after, c_npv_after)
                /\ ts' = [ts EXCEPT !["Year"] = Append(@, y),
                                 !["Generation"] = Append(@, gen),
                                 !["Discount Factor"] = Append(@, df),
                                 !["Discounted Gen"] = Append(@, g_npv),
                                 !["Cum Discounted Gen"] = Append(@, cum_denom'),
                                 !["Capex"] = Append(@, Zero),
                                 !["Opex Pre-tax"] = Append(@, opex_pre),
                                 !["Fuel/Charge Pre-tax"] = Append(@, Zero),
                                 !["Replacement"] = Append(@, rep),
                                 !["Salvage Pre-tax"] = Append(@, sal_pre),
                                 !["Net Cash Flow (Pre-tax)"] = Append(@, net_pre),
                                 !["PV of Cost (Pre-tax)"] = Append(@, c_npv_pre),
                                 !["Cum PV Cost (Pre-tax)"] = Append(@, cum_num_pre'),
                                 !["Depreciation"] = Append(@, curr_depr),
                                 !["Tax Shield"] = Append(@, Neg(tax_shield)),
                                 !["Opex Tax Benefit"] = Append(@, Neg(opex_ben)),
                                 !["Salvage After-tax"] = Append(@, sal_after),
                                 !["Net Cost Flow (After-tax)"] = Append(@, net_after),
                                 !["PV of Cost (After-tax)"] = Append(@, c_npv_after),
                                 !["Cum PV Cost (After-tax)"] = Append(@, cum_num_after')]
    /\ UNCHANGED <<mode, p, total_inv, annual_depr, sal_val_pre, lcoe_pre, lcoe_after, lcoe_ppa>>

\* lines 216-218, 333-335 and 469-471 are the same three statements
Levelize ==
    LET pre == LcoeOf(cum_num_pre, cum_denom)
        after == LcoeOf(cum_num_after, cum_denom)
        ppa == PpaOf(after, p.tax_rate)
    IN  IF Raised(pre) \/ Raised(after) \/ Raised(ppa)
        THEN /\ pc' = "fault"
             /\ UNCHANGED <<lcoe_pre, lcoe_after, lcoe_ppa>>
        ELSE /\ pc' = "done"
             /\ lcoe_pre' = pre
             /\ lcoe_after' = after
             /\ lcoe_ppa' = ppa

PvFinish ==
    /\ pc = "loop"
    /\ mode = "PV"
    /\ y > p.period
    /\ Levelize
    /\ UNCHANGED <<mode, p, y, ts, total_inv, annual_depr, sal_val_pre,
                   cum_denom, cum_num_pre, cum_num_after>>

----------------------------------------------------------------------------
(* render_gas_lcoe *)

\* annual_gen = gas_cap * hours
GasAnnualGen == Mul(p.gas_cap, p.hours)

\* annual_fuel_pre = (annual_gen * 1000 * heat_rate * price) / 10000
GasAnnualFuelPre ==
    Div(Mul(Mul(Mul(GasAnnualGen, I(1000)), p.heat_rate), p.price), I(10000))

GasSetup ==
    /\ pc = "setup"
    /\ mode = "GAS"
    /\ LET inv == p.gas_capex
           depr == Div(inv, I(p.depr_years))
       IN  /\ total_inv' = inv
           /\ ts' = Row0(inv)
           /\ IF Raised(depr)
              THEN /\ pc' = "fault"
                   /\ UNCHANGED <<y, annual_depr, sal_val_pre, cum_denom, cum_num_pre, cum_num_after>>
              ELSE /\ pc' = "loop"
                   /\ y' = 1
                   /\ annual_depr' = depr
                   /\ sal_val_pre' = Mul(inv, p.salvage_rate)
                   /\ cum_denom' = Zero
                   /\ cum_num_pre' = inv
                   /\ cum_num_after' = inv
    /\ UNCHANGED <<mode, p, lcoe_pre, lcoe_after, lcoe_ppa>>

GasYear ==
    /\ pc = "loop"
    /\ mode = "GAS"
    /\ y <= p.period
    /\ LET annual_gen == GasAnnualGen
           annual_fuel_pre == GasAnnualFuelPre
           df == DiscountFactor(p.wacc, y)
           g_npv == Mul(annual_gen, df)
           sal_pre == SalPreOf(y, p.period, sal_val_pre)
           net_pre == Add(Add(p.fixed_opex, annual_fuel_pre), sal_pre)
           c_npv_pre == Mul(net_pre, df)
           curr_depr == CurrDepr(y, p.depr_years, annual_depr)
           shield == Mul(curr_depr, p.tax_rate)
           opex_ben == Mul(Add(p.fixed_opex, annual_fuel_pre), p.tax_rate)
           sal_after == SalAfterOf(sal_pre, p.tax_rate)
           net_after == NetAfterOf(Add(p.fixed_opex, annual_fuel_pre), opex_ben, Zero,
                                   shield, sal_after)
           c_npv_after == Mul(net_after, df)
       IN  IF Raised(df)
           THEN /\ pc' = "fault"
                /\ ts' = [ts EXCEPT !["Year"] = Append(@, y),
                                 !["Generation"] = Append(@, annual_gen)]
                /\ UNCHANGED <<y, cum_denom, cum_num_pre, cum_num_after>>
           ELSE /\ pc' = "loop"
                /\ y' = y + 1
                /\ cum_denom' = Add(cum_denom, g_npv)
                /\ cum_num_pre' = Add(cum_num_pre, c_npv_pre)
                /\ cum_num_after' = Add(cum_num_after, c_npv_after)
                /\ ts' = [ts EXCEPT !["Year"] = Append(@, y),
                                 !["Generation"] = Append(@, annual_gen),
                                 !["Discount Factor"] = Append(@, df),
                                 !["Discounted Gen"] = Append(@, g_npv),
                                 !["Cum Discounted Gen"] = Append(@, cum_denom'),
                                 !["Capex"] = Append(@, Zero),
                                 !["Opex Pre-tax"] = Append(@, p.fixed_opex),
                                 !["Fuel/Charge Pre-tax"] = Append(@, annual_fuel_pre),
                                 !["Replacement"] = Append(@, Zero),
                                 !["Salvage Pre-tax"] = Append(@, sal_pre),
                                 !["Net Cash Flow (Pre-tax)"] = Append(@, net_pre),
                                 !["PV of Cost (Pre-tax)"] = Append(@, c_npv_pre),
                                 !["Cum PV Cost (Pre-tax)"] = Append(@, cum_num_pre'),
                                 !["Depreciation"] = Append(@, curr_depr),
                                 !["Tax Shield"] = Append(@, Neg(shield)),
                                 !["Opex Tax Benefit"] = Append(@, Neg(opex_ben)),
                                 !["Salvage After-tax"] = Append(@, sal_after),
                                 !["Net Cost Flow (After-tax)"] = Append(@, net_after),
                                 !["PV of Cost (After-tax)"] = Append(@, c_npv_after),
                                 !["Cum PV Cost (After-tax)"] = Append(@, cum_num_after')]
    /\ UNCHANGED <<mode, p, total_inv, annual_depr, sal_val_pre, lcoe_pre, lcoe_after, lcoe_ppa>>

GasFinish ==
    /\ pc = "loop"
    /\ mode = "GAS"
    /\ y > p.period
    /\ Levelize
    /\ UNCHANGED <<mode, p, y, ts, total_inv, annual_depr, sal_val_pre,
                   cum_denom, cum_num_pre, cum_num_after>>

----------------------------------------------------------------------------
(* render_lcos *)

LcosSetup ==
    /\ pc = "setup"
    /\ mode = "LCOS"
    /\ LET inv == p.capex
           depr == Div(inv, I(p.depr_years))
       IN  /\ total_inv' = inv
           /\ ts' = Row0(inv)
           /\ IF Raised(depr)
              THEN /\ pc' = "fault"
                   /\ UNCHANGED <<y, annual_depr, sal_val_pre, cum_denom, cum_num_pre, cum_num_after>>
              ELSE /\ pc' = "loop"
                   /\ y' = 1
                   /\ annual_depr' = depr
                   /\ cum_denom' = Zero
                   /\ cum_num_pre' = inv
                   /\ cum_num_after' = inv
                   /\ sal_val_pre' = Mul(inv, p.salvage_rate)
    /\ UNCHANGED <<mode, p, lcoe_pre, lcoe_after, lcoe_ppa>>

\* curr_cap = ess_cap * ((1-deg)**(y-1))
LcosCurrCap(yr) == Mul(p.ess_cap, Pow(Sub(One, p.deg), yr - 1))

\* dis = curr_cap * cycles * rte
LcosDis(yr) == Mul(Mul(LcosCurrCap(yr), p.cycles), p.rte)

\* charge_pre = (curr_cap * cycles * 1000 * charge_p) / 10000
LcosChargePre(yr) ==
    Div(Mul(Mul(Mul(LcosCurrCap(yr), p.cycles), I(1000)), p.charge_p), I(10000))

LcosYear ==
    /\ pc = "loop"
    /\ mode = "LCOS"
    /\ y <= p.period
    /\ LET dis == LcosDis(y)
           df == DiscountFactor(p.wacc, y)
           g_npv == Mul(dis, df)
           opex_pre == Mul(p.capex, p.opex_r)
           charge_pre == LcosChargePre(y)
           rep == RepOf(y, p.rep_yr, p.rep_cost)
           sal_pre == SalPreOf(y, p.period, sal_val_pre)
           net_pre == Add(Add(Add(opex_pre, charge_pre), rep), sal_pre)
           c_npv_pre == Mul(net_pre, df)
           curr_depr == CurrDepr(y, p.depr_years, annual_depr)
           shield == Mul(curr_depr, p.tax_rate)
           opex_ben == Mul(Add(opex_pre, charge_pre), p.tax_rate)
           sal_after == SalAfterOf(sal_pre, p.tax_rate)
           net_after == NetAfterOf(Add(opex_pre, charge_pre), opex_ben, rep, shield, sal_after)
           c_npv_after == Mul(net_after, df)
       IN  IF Raised(df)
           THEN /\ pc' = "fault"
                /\ ts' = [ts EXCEPT !["Year"] = Append(@, y),
                                 !["Generation"] = Append(@, dis)]
                /\ UNCHANGED <<y, cum_denom, cum_num_pre, cum_num_after>>
           ELSE /\ pc' = "loop"
                /\ y' = y + 1
                /\ cum_denom' = Add(cum_denom, g_npv)
                /\ cum_num_pre' = Add(cum_num_pre, c_npv_pre)
                /\ cum_num_after' = Add(cum_num_after, c_npv_after)
                /\ ts' = [ts EXCEPT !["Year"] = Append(@, y),
                                 !["Generation"] = Append(@, dis),
                                 !["Discount Factor"] = Append(@, df),
                                 !["Discounted Gen"] = Append(@, g_npv),
                                 !["Cum Discounted Gen"] = Append(@, cum_denom'),
                                 !["Capex"] = Append(@, Zero),
                                 !["Opex Pre-tax"] = Append(@, opex_pre),
                                 !["Fuel/Charge Pre-tax"] = Append(@, charge_pre),
                                 !["Replacement"] = Append(@, rep),
                                 !["Salvage Pre-tax"] = Append(@, sal_pre),
                                 !["Net Cash Flow (Pre-tax)"] = Append(@, net_pre),
                                 !["PV of Cost (Pre-tax)"] = Append(@, c_npv_pre),
                                 !["Cum PV Cost (Pre-tax)"] = Append(@, cum_num_pre'),
                                 !["Depreciation"] = Append(@, curr_depr),
                                 !["Tax Shield"] = Append(@, Neg(shield)),
                                 !["Opex Tax Benefit"] = Append(@, Neg(opex_ben)),
                                 !["Salvage After-tax"] = Append(@, sal_after),
                                 !["Net Cost Flow (After-tax)"] = Append(@, net_after),
                                 !["PV of Cost (After-tax)"] = Append(@, c_npv_after),
                                 !["Cum PV Cost (After-tax)"] = Append(@, cum_num_after')]
    /\ UNCHANGED <<mode, p, total_inv, annual_depr, sal_val_pre, lcoe_pre, lcoe_after, lcoe_ppa>>

LcosFinish ==
    /\ pc = "loop"
    /\ mode = "LCOS"
    /\ y > p.period
    /\ Levelize
    /\ UNCHANGED <<mode, p, y, ts, total_inv, annual_depr, sal_val_pre,
                   cum_denom, cum_num_pre, cum_num_after>>

----------------------------------------------------------------------------
(* main: the sidebar radio selects one calculator, which reads its widgets *)

Init ==
    /\ \/ mode = "PV" /\ p \in PvInputs
       \/ mode = "GAS" /\ p \in GasInputs
       \/ mode = "LCOS" /\ p \in LcosInputs
    /\ pc = "setup"
    /\ y = 0
    /\ ts = [k \in Cols |-> <<>>]
    /\ total_inv = Zero
    /\ annual_depr = Zero
    /\ sal_val_pre = Zero
    /\ cum_denom = Zero
    /\ cum_num_pre = Zero
    /\ cum_num_after = Zero
    /\ lcoe_pre = Zero
    /\ lcoe_after = Zero
    /\ lcoe_ppa = Zero

Next ==
    \/ PvSetup \/ PvYear \/ PvFinish
    \/ GasSetup \/ GasYear \/ GasFinish
    \/ LcosSetup \/ LcosYear \/ LcosFinish

Spec == Init /\ [][Next]_vars

----------------------------------------------------------------------------
(* Reading the table and the run. *)

\* the entry of column k for year yr
Col(k, yr) == ts[k][yr + 1]

\* years 1..LastYear have a complete row
LastYear == Len(ts["Cum PV Cost (After-tax)"]) - 1

\* where a ZeroDivisionError was raised
SetupFault == pc = "fault" /\ y = 0

LoopFault == pc = "fault" /\ y >= 1 /\ y <= p.period

LevelizeFault == pc = "fault" /\ y > p.period

\* the initial investment, from the widgets
InitialInvestment ==
    CASE mode = "PV" -> Add(Add(p.capex_pv, p.capex_ess), p.capex_grid)
      [] mode = "GAS" -> p.gas_capex
      [] mode = "LCOS" -> p.capex

NonZeroYears(k) == {i \in 0 .. Len(ts[k]) - 1 : Col(k, i) # Zero}

----------------------------------------------------------------------------
(* C1 *)

\* C1: in each calculator, whenever depr_years <= 0 the computation raises no
\* division fault and the Depreciation and Tax Shield entries of every
\* recorded year are 0.
C1_ZeroDeprNoFault ==
    (pc # "setup" /\ p.depr_years <= 0) =>
        /\ ~SetupFault
        /\ \A i \in 1 .. Len(ts["Depreciation"]) : ts["Depreciation"][i] = Zero
        /\ \A i \in 1 .. Len(ts["Tax Shield"]) : ts["Tax Shield"][i] = Zero

----------------------------------------------------------------------------
(* C2 *)

\* C2: in the PV+storage and storage calculators, for rep_yr in [0, period]
\* and rep_cost > 0, the Replacement series of a finished run is non-zero in
\* exactly the year rep_yr, where it equals rep_cost, and the year-0 Capex
\* entry is the full initial investment.
C2_ReplacementOnce ==
    (pc = "done" /\ mode \in {"PV", "LCOS"}
       /\ p.rep_yr >= 0 /\ p.rep_yr <= p.period /\ Gt0(p.rep_cost)) =>
        /\ NonZeroYears("Replacement") = {p.rep_yr}
        /\ Col("Replacement", p.rep_yr) = p.rep_cost
        /\ Col("Capex", 0) = InitialInvestment
        /\ Len(ts["Replacement"]) = p.period + 1

C2_Witness ==
    /\ pc = "done" /\ mode = "PV"
    /\ p.rep_yr < p.period
    /\ Col("Replacement", p.rep_yr) = p.rep_cost
    /\ Gt0(p.rep_cost)
    /\ Col("Capex", 0) = I(16)

----------------------------------------------------------------------------
(* C3 *)

In01(a) == Geq0(a) /\ Leq(a, One)

ValidSizing ==
    CASE mode = "PV" ->
           /\ Geq0(p.pv_cap) /\ Geq0(p.pv_hours) /\ Geq0(p.ess_cap) /\ Geq0(p.ess_cycles)
           /\ In01(p.pv_deg) /\ In01(p.ess_eff)
      [] mode = "GAS" ->
           /\ Geq0(p.gas_cap) /\ Geq0(p.hours)
      [] mode = "LCOS" ->
           /\ Geq0(p.ess_cap) /\ Geq0(p.cycles)
           /\ In01(p.deg) /\ In01(p.rte)

ValidCosts ==
    CASE mode = "PV" ->
           /\ Geq0(p.capex_pv) /\ Geq0(p.capex_ess) /\ Geq0(p.capex_grid)
           /\ In01(p.opex_r_pv) /\ In01(p.opex_r_ess) /\ In01(p.opex_r_grid)
           /\ Geq0(p.rep_cost) /\ p.rep_yr >= 0 /\ p.rep_yr <= p.period
      [] mode = "GAS" ->
           /\ Geq0(p.gas_capex) /\ Geq0(p.heat_rate) /\ Geq0(p.price) /\ Geq0(p.fixed_opex)
      [] mode = "LCOS" ->
           /\ Geq0(p.capex) /\ In01(p.opex_r) /\ Geq0(p.charge_p)
           /\ Geq0(p.rep_cost) /\ p.rep_yr >= 0 /\ p.rep_yr <= p.period

ValidParams ==
    /\ p.period >= 1
    /\ p.depr_years >= 1
    /\ In01(p.wacc) /\ In01(p.tax_rate) /\ In01(p.salvage_rate)
    /\ ValidSizing
    /\ ValidCosts

\* C3: for every valid parameter set the pre-tax LCOE, the after-tax LCOE and
\* the breakeven price of a finished run are >= 0, and neither discounted
\* cost numerator is below 0.
C3_NonNegativeResults ==
    (pc = "done" /\ ValidParams) =>
        /\ Geq0(lcoe_pre) /\ Geq0(lcoe_after) /\ Geq0(lcoe_ppa)
        /\ Geq0(cum_num_pre) /\ Geq0(cum_num_after)

C3_Witness ==
    /\ pc = "done" /\ ValidParams /\ mode = "GAS"
    /\ p.salvage_rate = One /\ p.tax_rate = Pct(50) /\ p.depr_years = 2
    /\ Lt0(Col("Salvage Pre-tax", p.period))
    /\ Lt0(Col("Tax Shield", 1))
    /\ Gt0(lcoe_pre) /\ Gt0(lcoe_after) /\ Gt0(lcoe_ppa)

----------------------------------------------------------------------------
(* C4 *)

RECURSIVE SumSeq(_)
SumSeq(s) == IF s = <<>> THEN Zero ELSE Add(Head(s), SumSeq(Tail(s)))

\* the year-i term of the after-tax cost stream, from the recorded rows
AfterTaxCostAt(i) ==
    LET keep == Sub(One, p.tax_rate)
    IN  Add(Add(Add(
            Mul(Add(Col("Opex Pre-tax", i), Col("Fuel/Charge Pre-tax", i)), keep),
            Col("Replacement", i)),
            Neg(Mul(Col("Depreciation", i), p.tax_rate))),
            Mul(Col("Salvage Pre-tax", i), keep))

AfterTaxOutputNPV ==
    SumSeq([i \in 1 .. p.period |->
               Mul(Mul(Col("Generation", i), Sub(One, p.tax_rate)), DiscountFactor(p.wacc, i))])

UnleveredNumerator ==
    Add(InitialInvestment,
        SumSeq([i \in 1 .. p.period |-> Mul(AfterTaxCostAt(i), DiscountFactor(p.wacc, i))]))

UnleveredPrice == Mul(Div(UnleveredNumerator, AfterTaxOutputNPV), I(10))

\* the equal-principal debt schedule on debt ratio dr at cost of debt cod
Min(a, b) == IF a < b THEN a ELSE b

LoanTerm == 15

AmortYears == Min(p.period, LoanTerm)

InitialDebt(dr) == Mul(dr, InitialInvestment)

PrincipalAt(dr, i) ==
    IF i <= AmortYears THEN Div(InitialDebt(dr), I(AmortYears)) ELSE Zero

BalanceAfter(dr, i) ==
    LET b == Sub(InitialDebt(dr), Mul(I(Min(i, AmortYears)), Div(InitialDebt(dr), I(AmortYears))))
    IN  IF Lt0(b) THEN Zero ELSE b

InterestAt(dr, cod, i) ==
    IF i <= AmortYears THEN Mul(BalanceAfter(dr, i - 1), cod) ELSE Zero

LeveredCostAt(dr, cod, i) ==
    Add(Add(AfterTaxCostAt(i), Mul(InterestAt(dr, cod, i), Sub(One, p.tax_rate))),
        PrincipalAt(dr, i))

LeveredNumerator(dr, cod) ==
    Add(Sub(InitialInvestment, InitialDebt(dr)),
        SumSeq([i \in 1 .. p.period |->
                   Mul(LeveredCostAt(dr, cod, i), DiscountFactor(p.wacc, i))]))

LeveredPrice(dr, cod) == Mul(Div(LeveredNumerator(dr, cod), AfterTaxOutputNPV), I(10))

DebtRatios == {Pct(0), Pct(50)}

CostsOfDebt == {Pct(0), Pct(100)}

----------------------------------------------------------------------------
(* C5 *)

\* C5: whenever the discounted output summed by the loop is 0, the last three
\* statements raise no division fault and a finished run reports 0 for the
\* pre-tax LCOE, the after-tax LCOE and the breakeven price.
C5_ZeroOutputReportsZero ==
    (y > p.period /\ cum_denom = Zero) =>
        /\ ~LevelizeFault
        /\ pc = "done" => (lcoe_pre = Zero /\ lcoe_after = Zero /\ lcoe_ppa = Zero)

C5_Witness ==
    /\ pc = "done" /\ cum_denom = Zero
    /\ p.period >= 1
    /\ Gt0(cum_num_pre) /\ Gt0(cum_num_after)
    /\ lcoe_pre = Zero /\ lcoe_after = Zero /\ lcoe_ppa = Zero

----------------------------------------------------------------------------
(* C6 *)

SalvageValue == Mul(InitialInvestment, p.salvage_rate)

\* C6: for period >= 1 the Salvage Pre-tax series of a finished run is 0 in
\* every year before the last and -(total capex * salvage_rate) in the last,
\* so that the last year is the only non-zero one; the Salvage After-tax
\* entry of the last year is that value times (1 - tax_rate).
C6_SalvageFinalYearOnly ==
    (pc = "done" /\ p.period >= 1) =>
        /\ Len(ts["Salvage Pre-tax"]) = p.period + 1
        /\ \A i \in 0 .. p.period - 1 : Col("Salvage Pre-tax", i) = Zero
        /\ Col("Salvage Pre-tax", p.period) = Neg(SalvageValue)
        /\ SalvageValue # Zero => NonZeroYears("Salvage Pre-tax") = {p.period}
        /\ Col("Salvage After-tax", p.period) = Mul(Neg(SalvageValue), Sub(One, p.tax_rate))

C6_Witness ==
    /\ pc = "done" /\ p.period >= 2
    /\ p.tax_rate = Pct(50)
    /\ Lt0(Col("Salvage Pre-tax", p.period))
    /\ Col("Salvage After-tax", p.period) = Mul(Col("Salvage Pre-tax", p.period), Pct(50))
    /\ NonZeroYears("Salvage Pre-tax") = {p.period}

----------------------------------------------------------------------------
(* C7 *)

\* charge_energy = storage capacity * annual cycles
PvChargeEnergy == Mul(p.ess_cap, p.ess_cycles)

PvRawGeneration(i) == Mul(Mul(p.pv_cap, p.pv_hours), DegFactor(i, p.pv_deg))

\* C7: in the PV+storage calculator every recorded year has output = raw
\* generation + charge_energy * efficiency, and the storage discharge is never
\* counted in the output while the Fuel/Charge entry of that year is 0.
C7_DischargeHasChargingCost ==
    mode = "PV" =>
        \A i \in 1 .. LastYear :
            /\ Col("Generation", i) = Add(PvRawGeneration(i), Mul(PvChargeEnergy, p.ess_eff))
            /\ Gt0(Mul(PvChargeEnergy, p.ess_eff)) => Col("Fuel/Charge Pre-tax", i) # Zero

----------------------------------------------------------------------------
(* C8 *)

Clamp(a) == IF Lt0(a) THEN Zero ELSE a

ClampedOutput(i) ==
    CASE mode = "PV" ->
           Add(Mul(Mul(Clamp(p.pv_cap), Clamp(p.pv_hours)), DegFactor(i, Clamp(p.pv_deg))),
               Mul(Mul(Clamp(p.ess_cap), Clamp(p.ess_cycles)), Clamp(p.ess_eff)))
      [] mode = "GAS" -> Mul(Clamp(p.gas_cap), Clamp(p.hours))
      [] mode = "LCOS" ->
           Mul(Mul(Mul(Clamp(p.ess_cap), Pow(Sub(One, Clamp(p.deg)), i - 1)),
                   Clamp(p.cycles)), Clamp(p.rte))

\* C8: a period < 1 never yields a result, and every recorded output is the
\* output formula applied to the capacities and rates clamped at 0.
C8_BoundaryValidation ==
    /\ p.period < 1 => pc # "done"
    /\ \A i \in 1 .. Len(ts["Generation"]) - 1 : Col("Generation", i) = ClampedOutput(i)

----------------------------------------------------------------------------
(* C9 *)

DeprOf(i) ==
    IF i <= p.depr_years THEN Div(InitialInvestment, I(p.depr_years)) ELSE Zero

\* C9: in each calculator, for every recorded year i >= 1,
\* Net Cost Flow (After-tax)[i] = (opex + fuel) * (1 - tax_rate) + replacement
\* - depreciation_i * tax_rate + salvage_pretax_i * (1 - tax_rate), with
\* depreciation_i = capex / depr_years for i <= depr_years and 0 afterwards;
\* year 0 records the full capex.
C9_NetAfterTaxFormula ==
    pc \in {"loop", "done"} =>
        /\ Col("Net Cost Flow (After-tax)", 0) = InitialInvestment
        /\ \A i \in 1 .. LastYear :
              Col("Net Cost Flow (After-tax)", i) =
                 Add(Sub(Add(Mul(Add(Col("Opex Pre-tax", i), Col("Fuel/Charge Pre-tax", i)),
                                 Sub(One, p.tax_rate)),
                             Col("Replacement", i)),
                         Mul(DeprOf(i), p.tax_rate)),
                     Mul(Col("Salvage Pre-tax", i), Sub(One, p.tax_rate)))

C9_Witness ==
    /\ pc = "done" /\ mode = "LCOS"
    /\ p.tax_rate = Pct(50) /\ p.depr_years = 2 /\ p.period > p.rep_yr
    /\ Gt0(Col("Fuel/Charge Pre-tax", 1))
    /\ Gt0(Col("Depreciation", 2)) /\ Col("Depreciation", 3) = Zero
    /\ Gt0(Col("Replacement", p.rep_yr))
    /\ Lt0(Col("Salvage Pre-tax", p.period))
    /\ Col("Net Cost Flow (After-tax)", p.rep_yr) # Col("Net Cash Flow (Pre-tax)", p.rep_yr)

----------------------------------------------------------------------------
(* C10 *)

PvFloorFactor(i) ==
    LET f == Sub(One, Mul(I(i - 1), p.pv_deg))
    IN  IF Geq0(f) THEN f ELSE Zero

\* C10: for non-negative sizing and a degradation rate in [0,1], the output
\* series of a finished run has period + 1 entries, entry 0 is 0 and every
\* later entry is >= 0; in the PV+storage calculator the generation part is
\* capacity * hours * max(1 - (i-1) * degradation, 0), which is exactly 0 once
\* (i-1) * degradation >= 1.
C10_OutputNonNegative ==
    (pc = "done" /\ ValidSizing) =>
        /\ Len(ts["Generation"]) = p.period + 1
        /\ Col("Generation", 0) = Zero
        /\ \A i \in 1 .. p.period :
              /\ Geq0(Col("Generation", i))
              /\ mode = "PV" =>
                   /\ Col("Generation", i) =
                         Add(Mul(Mul(p.pv_cap, p.pv_hours), PvFloorFactor(i)),
                             Mul(PvChargeEnergy, p.ess_eff))
                   /\ Geq0(Sub(Mul(I(i - 1), p.pv_deg), One)) =>
                         Col("Generation", i) = Mul(PvChargeEnergy, p.ess_eff)

C10_Witness ==
    /\ pc = "done" /\ mode = "PV" /\ ValidSizing
    /\ Gt0(p.pv_cap) /\ p.pv_deg = Pct(50) /\ p.period >= 4
    /\ Gt0(Sub(Col("Generation", 2), Col("Generation", 4)))
    /\ Col("Generation", 3) = Mul(PvChargeEnergy, p.ess_eff)
    /\ Col("Generation", 4) = Mul(PvChargeEnergy, p.ess_eff)

----------------------------------------------------------------------------
(* C11 *)

\* the sum of the entries of column k for the years 0..i
SumUpTo(k, i) == SumSeq(SubSeq(ts[k], 1, i + 1))

\* C11: once the loop has completed its iterations 1..y-1, every column holds
\* exactly y entries (years 0..y-1); each discounted entry is its nominal
\* entry times the discount factor of its year, the year-0 capex being
\* undiscounted; each running total equals the sum of its series up to that
\* year; and the numerators and the denominator the results are computed from
\* are the sums of the whole series.
C11_AlignedRunningSums ==
    pc \in {"loop", "done"} =>
        /\ \A k \in Cols : Len(ts[k]) = y
        /\ \A i \in 0 .. y - 1 : Col("Year", i) = i
        /\ Col("Discount Factor", 0) = One
        /\ Col("PV of Cost (Pre-tax)", 0) = InitialInvestment
        /\ Col("PV of Cost (After-tax)", 0) = InitialInvestment
        /\ \A i \in 0 .. y - 1 :
              /\ Col("PV of Cost (Pre-tax)", i) =
                    Mul(Col("Net Cash Flow (Pre-tax)", i), Col("Discount Factor", i))
              /\ Col("PV of Cost (After-tax)", i) =
                    Mul(Col("Net Cost Flow (After-tax)", i), Col("Discount Factor", i))
              /\ Col("Discounted Gen", i) =
                    Mul(Col("Generation", i), Col("Discount Factor", i))
              /\ Col("Cum PV Cost (Pre-tax)", i) = SumUpTo("PV of Cost (Pre-tax)", i)
              /\ Col("Cum PV Cost (After-tax)", i) = SumUpTo("PV of Cost (After-tax)", i)
              /\ Col("Cum Discounted Gen", i) = SumUpTo("Discounted Gen", i)
        /\ cum_num_pre = SumUpTo("PV of Cost (Pre-tax)", y - 1)
        /\ cum_num_after = SumUpTo("PV of Cost (After-tax)", y - 1)
        /\ cum_denom = SumUpTo("Discounted Gen", y - 1)
        /\ pc = "done" =>
              /\ y = p.period + 1
              /\ lcoe_pre = LcoeOf(SumUpTo("PV of Cost (Pre-tax)", p.period),
                                   SumUpTo("Discounted Gen", p.period))
              /\ lcoe_after = LcoeOf(SumUpTo("PV of Cost (After-tax)", p.period),
                                     SumUpTo("Discounted Gen", p.period))

C11_Witness ==
    /\ pc = "done" /\ p.period = MaxPeriod /\ p.wacc = One /\ p.tax_rate = Pct(50)
    /\ \A k \in Cols : Len(ts[k]) = MaxPeriod + 1
    /\ Gt0(cum_denom)
    /\ cum_num_pre # cum_num_after
    /\ Col("Cum PV Cost (Pre-tax)", p.period) = cum_num_pre
    /\ Gt0(Sub(Col("Cum PV Cost (Pre-tax)", 2), Col("Cum PV Cost (Pre-tax)", 1)))
    /\ Gt0(Sub(Col("Net Cash Flow (Pre-tax)", 2), Col("PV of Cost (Pre-tax)", 2)))
    /\ Gt0(lcoe_pre)

TypeOK == pc \in {"setup", "loop", "done", "fault"}
====
